---- MODULE Spec2Model ----
(***************************************************************************)
(* Model of src/src/MPC.cpp: the NLP formulator FG_eval::operator() and    *)
(* the driver MPC::Solve, with the Ipopt solver as an environment that     *)
(* evaluates the formulator at candidate vectors and returns a status and  *)
(* a solution vector.                                                      *)
(*                                                                         *)
(* Numbers.  A double is a fixed-point integer counting hundredths, so     *)
(* 1.0 is 100 and M_PI/8 = 0.3927 is 39.  A product of two such numbers    *)
(* counts 1/10000.  The variable bounds also hold                          *)
(* +-1.0e19, which no integer of TLC holds: an entry of a bound vector is  *)
(* a pair <<k, c>> denoting k * 1e19 + c / 100, ordered                    *)
(* lexicographically (|c / 100| is far below 1e19).                        *)
(*                                                                         *)
(* Vectors are functions on 0 .. size-1, as in the source; the returned    *)
(* std::vector is a sequence built by Append (push_back).                  *)
(***************************************************************************)
EXTENDS Integers, Sequences, FiniteSets, TLC

VARIABLES
  N,          \* horizon (global, line 12)
  ref_cte,    \* global double, line 38
  ref_epsi,   \* global double, line 39
  ref_v,      \* global double, line 40
  pc,         \* where the control cycle is: idle, solving, solved, returned
  state,      \* argument of the running call
  coeffs,     \* argument of the running call
  problem,    \* what Solve hands to CppAD::ipopt::solve
  fg,         \* outcome of the last FG_eval evaluation in this solve
  solution,   \* CppAD::ipopt::solve_result: status and x
  ok,         \* the local `ok` of Solve
  result,     \* the vector Solve returns to its caller
  fault,      \* history: an index fell outside its vector during this call
  lastStatus, \* history: the status the previous call's solve ended with
  calls,      \* history: number of calls of MPC::Solve so far
  handed      \* history: every problem handed to the solver, with its inputs

vars == <<N, ref_cte, ref_epsi, ref_v, pc, state, coeffs, problem, fg,
          solution, ok, result, fault, lastStatus, calls, handed>>

----------------------------------------------------------------------------
(* Bounds of the model                                                     *)

MaxN == 3          \* horizons 2 .. MaxN are explored
MaxSeed == 1       \* seeds 0 .. MaxSeed of the vector family Vec
MaxCalls == 2      \* calls of MPC::Solve in one run

(* Program constants                                                       *)

cost_cte_factor == 3000
cost_epsi_factor == 500
cost_v_factor == 1
cost_current_delta_factor == 1
cost_diff_delta_factor == 200
cost_current_a_factor == 1
cost_diff_a_factor == 1
RefCte == 0
RefEpsi == 0
RefV == 4000
PiOver8 == 39
One == 100
SizeMax == 2147483647

Horizons == 2 .. MaxN

----------------------------------------------------------------------------
(* size_t arithmetic: an unsigned subtraction wraps.  SizeMax stands for   *)
(* SIZE_MAX, cut to the largest integer TLC holds.                         *)

SizeSub(a, b) == IF a >= b THEN a - b ELSE (SizeMax - (b - a)) + 1

(* Layout of the flat vector, lines 45-52                                  *)

x_start == 0
y_start == x_start + N
psi_start == y_start + N
v_start == psi_start + N
cte_start == v_start + N
epsi_start == cte_start + N
delta_start == epsi_start + N
a_start_off_by_one == delta_start + N
a_start == SizeSub(delta_start + N, 1)

n_vars == 6 * N + 2 * SizeSub(N, 1)
n_constraints == 6 * N

(* Extended doubles of the bound vectors                                   *)

Dbl(c) == <<0, c>>
Big == <<1, 0>>
NegBig == <<-1, 0>>
Uninit == <<9, 9>>
Leq(a, b) == a[1] < b[1] \/ (a[1] = b[1] /\ a[2] <= b[2])

Pow2(x) == x * x

----------------------------------------------------------------------------
(* Vector access.  An index outside the vector is undefined behaviour in   *)
(* the source; the model records it in `fault` and stops the loop there.   *)

Rd(v, i) == IF i \in DOMAIN v THEN v[i] ELSE 0

Touch(m, v, S) ==
  [m EXCEPT !.reads = @ \cup S, !.fault = @ \/ ~(S \subseteq DOMAIN v)]

(* Entries of fg: the cost, an initial-state residual (the candidate's own *)
(* value of one variable), or a dynamics residual, kept symbolically as    *)
(* the equation it comes from, the variable of timestep t+1 it constrains  *)
(* (next), the variables of timestep t it reads (prev) and the polynomial  *)
(* coefficients it uses (cf).                                              *)

Unset == [kind |-> "unset", form |-> "", val |-> 0, next |-> -1, prev |-> {}, cf |-> {}]
CostEntry(c) == [kind |-> "cost", form |-> "", val |-> c, next |-> -1, prev |-> {}, cf |-> {}]
InitEntry(v, k) == [kind |-> "init", form |-> "", val |-> Rd(v, k), next |-> k, prev |-> {}, cf |-> {}]
DynEntry(f, nx, pv, c) == [kind |-> "dyn", form |-> f, val |-> 0, next |-> nx, prev |-> pv, cf |-> c]

FgAdd(m, d) == [m EXCEPT !.fg[0].val = @ + d]

FgSet(m, k, e) ==
  [m EXCEPT !.fg = IF k \in DOMAIN @ THEN [@ EXCEPT ![k] = e] ELSE @,
            !.wr = Append(@, k),
            !.fault = @ \/ k \notin DOMAIN m.fg]

(* FG_eval::operator(), lines 63-156                                       *)

TrackingBound == N
EffortBound_one_less == SizeSub(N, 2)
EffortBound == SizeSub(N, 1)
SmoothBound_one_more == SizeSub(N, 1)
SmoothBound == SizeSub(N, 2)
DynamicsBound == SizeSub(N, 1)

RECURSIVE TrackingLoop(_, _, _)
TrackingLoop(m, v, i) ==
  IF i < TrackingBound /\ ~m.fault
  THEN LET t == Touch(m, v, {cte_start + i, epsi_start + i, v_start + i})
           a == FgAdd(t, cost_cte_factor * Pow2(Rd(v, cte_start + i) - ref_cte))
           b == FgAdd(a, cost_epsi_factor * Pow2(Rd(v, epsi_start + i) - ref_epsi))
           c == FgAdd(b, cost_v_factor * Pow2(Rd(v, v_start + i) - ref_v))
       IN TrackingLoop(c, v, i + 1)
  ELSE m

RECURSIVE EffortLoop(_, _, _)
EffortLoop(m, v, i) ==
  IF i < EffortBound /\ ~m.fault
  THEN LET t == Touch(m, v, {delta_start + i, a_start + i})
           a == FgAdd(t, cost_current_delta_factor * Pow2(Rd(v, delta_start + i)))
           b == FgAdd(a, cost_current_a_factor * Pow2(Rd(v, a_start + i)))
       IN EffortLoop(b, v, i + 1)
  ELSE m

RECURSIVE SmoothLoop(_, _, _)
SmoothLoop(m, v, i) ==
  IF i < SmoothBound /\ ~m.fault
  THEN LET t == Touch(m, v, {delta_start + i + 1, delta_start + i,
                             a_start + i + 1, a_start + i})
           a == FgAdd(t, cost_diff_delta_factor
                           * Pow2(Rd(v, delta_start + i + 1) - Rd(v, delta_start + i)))
           b == FgAdd(a, cost_diff_a_factor
                           * Pow2(Rd(v, a_start + i + 1) - Rd(v, a_start + i)))
       IN SmoothLoop(b, v, i + 1)
  ELSE m

InitialStateResiduals(m, v) ==
  LET t == Touch(m, v, {x_start, y_start, psi_start, v_start, cte_start, epsi_start})
      a == FgSet(t, 1 + x_start, InitEntry(v, x_start))
      b == FgSet(a, 1 + y_start, InitEntry(v, y_start))
      c == FgSet(b, 1 + psi_start, InitEntry(v, psi_start))
      d == FgSet(c, 1 + v_start, InitEntry(v, v_start))
      e == FgSet(d, 1 + cte_start, InitEntry(v, cte_start))
  IN FgSet(e, 1 + epsi_start, InitEntry(v, epsi_start))

ResidualBase_off_by_one == 2 - 1
ResidualBase == 2

RECURSIVE DynamicsLoop(_, _, _)
DynamicsLoop(m, v, i) ==
  IF i < DynamicsBound /\ ~m.fault
  THEN LET x1 == x_start + i + 1
           y1 == y_start + i + 1
           psi1 == psi_start + i + 1
           v1 == v_start + i + 1
           cte1 == cte_start + i + 1
           epsi1 == epsi_start + i + 1
           x0 == x_start + i
           y0 == y_start + i
           psi0 == psi_start + i
           v0 == v_start + i
           cte0 == cte_start + i
           epsi0 == epsi_start + i
           delta0 == delta_start + i
           a0 == a_start + i
           t == Touch(m, v, {x1, y1, psi1, v1, cte1, epsi1,
                             x0, y0, psi0, v0, cte0, epsi0, delta0, a0})
           a == FgSet(t, ResidualBase + x_start + i,
                      DynEntry("x1 - (x0 + v0 * cos(psi0) * dt)", x1, {x0, v0, psi0}, {}))
           b == FgSet(a, ResidualBase + y_start + i,
                      DynEntry("y1 - (y0 + v0 * sin(psi0) * dt)", y1, {y0, v0, psi0}, {}))
           c == FgSet(b, ResidualBase + psi_start + i,
                      DynEntry("psi1 - (psi0 - v0 * delta0 / Lf * dt)", psi1,
                               {psi0, v0, delta0}, {}))
           d == FgSet(c, ResidualBase + v_start + i,
                      DynEntry("v1 - (v0 + a0 * dt)", v1, {v0, a0}, {}))
           e == FgSet(d, ResidualBase + cte_start + i,
                      DynEntry("cte1 - ((f0 - y0) + (v0 * sin(epsi0) * dt))", cte1,
                               {x0, y0, v0, epsi0}, {0, 1, 2, 3}))
           f == FgSet(e, ResidualBase + epsi_start + i,
                      DynEntry("epsi1 - ((psi0 - psides0) - v0 * delta0 / Lf * dt)", epsi1,
                               {psi0, x0, v0, delta0}, {1, 2, 3}))
       IN DynamicsLoop(f, v, i + 1)
  ELSE m

(* fg arrives with 1 + ng entries, ng the size of the constraint bounds    *)
(* handed to the solver.                                                   *)
FG_eval(v, ng) ==
  LET m0 == [done |-> TRUE, vars |-> v,
             fg |-> [k \in 0 .. ng |-> Unset],
             reads |-> {}, wr |-> <<>>, fault |-> FALSE]
      m1 == FgSet(m0, 0, CostEntry(0))
      m2 == TrackingLoop(m1, v, 0)
      m3 == EffortLoop(m2, v, 0)
      m4 == SmoothLoop(m3, v, 0)
      m5 == InitialStateResiduals(m4, v)
  IN DynamicsLoop(m5, v, 0)

NoEval == [done |-> FALSE, vars |-> <<>>, fg |-> <<>>,
           reads |-> {}, wr |-> <<>>, fault |-> FALSE]

----------------------------------------------------------------------------
(* MPC::Solve, lines 166-305                                               *)

SetAt(vec, k, val) == IF k \in DOMAIN vec THEN [vec EXCEPT ![k] = val] ELSE vec

(* a warm start: the previous call's solution as the initial vector        *)
InitialVars_warm(st) ==
  LET z == IF DOMAIN solution.x = 0 .. n_vars - 1
           THEN solution.x ELSE [i \in 0 .. n_vars - 1 |-> 0]
      a == SetAt(z, x_start, st[0])
      b == SetAt(a, y_start, st[1])
      c == SetAt(b, psi_start, st[2])
      d == SetAt(c, v_start, st[3])
      e == SetAt(d, cte_start, st[4])
  IN SetAt(e, epsi_start, st[5])

(* lines 183-202: zero vector, then the six current-state values           *)
InitialVars(st) ==
  LET z == [i \in 0 .. n_vars - 1 |-> 0]
      a == SetAt(z, x_start, st[0])
      b == SetAt(a, y_start, st[1])
      c == SetAt(b, psi_start, st[2])
      d == SetAt(c, v_start, st[3])
      e == SetAt(d, cte_start, st[4])
  IN SetAt(e, epsi_start, st[5])

(* lines 204-224: the three loops over the variable bounds; `log` lists    *)
(* the indices assigned, in order.                                         *)
SetBound(b, i, lo, up) ==
  [b EXCEPT !.up = SetAt(@, i, up), !.lo = SetAt(@, i, lo),
            !.log = Append(@, i), !.fault = @ \/ i \notin DOMAIN b.up]

RECURSIVE BoundLoop(_, _, _, _, _)
BoundLoop(b, i, end, lo, up) ==
  IF i < end /\ ~b.fault
  THEN BoundLoop(SetBound(b, i, lo, up), i + 1, end, lo, up)
  ELSE b

NoBounds ==
  [lo |-> [i \in 0 .. n_vars - 1 |-> Uninit],
   up |-> [i \in 0 .. n_vars - 1 |-> Uninit],
   log |-> <<>>, fault |-> FALSE]

VarBounds_steer_as_accel ==
  LET b1 == BoundLoop(NoBounds, 0, delta_start, NegBig, Big)
      b2 == BoundLoop(b1, delta_start, a_start, Dbl(-One), Dbl(One))
  IN BoundLoop(b2, a_start, n_vars, Dbl(-One), Dbl(One))

VarBounds_accel_late ==
  LET b1 == BoundLoop(NoBounds, 0, delta_start, NegBig, Big)
      b2 == BoundLoop(b1, delta_start, a_start, Dbl(-PiOver8), Dbl(PiOver8))
  IN BoundLoop(b2, a_start + 1, n_vars, Dbl(-One), Dbl(One))

VarBounds ==
  LET b1 == BoundLoop(NoBounds, 0, delta_start, NegBig, Big)
      b2 == BoundLoop(b1, delta_start, a_start, Dbl(-PiOver8), Dbl(PiOver8))
  IN BoundLoop(b2, a_start, n_vars, Dbl(-One), Dbl(One))

(* lines 228-247: the constraint bounds                                    *)
ConstraintBounds_copy_paste(st) ==
  LET z == [i \in 0 .. n_constraints - 1 |-> 0]
      l1 == SetAt(z, x_start, st[0])
      l2 == SetAt(l1, y_start, st[1])
      l3 == SetAt(l2, psi_start, st[2])
      l4 == SetAt(l3, v_start, st[3])
      l5 == SetAt(l4, cte_start, st[4])
      l6 == SetAt(l5, epsi_start, st[5])
      u1 == SetAt(z, x_start, st[0])
      u2 == SetAt(u1, y_start, st[1])
      u3 == SetAt(u2, psi_start, st[2])
      u4 == SetAt(u3, v_start, st[3])
      u5 == SetAt(u4, cte_start, st[4])
      u6 == SetAt(u5, epsi_start, st[4])
  IN [lo |-> l6, up |-> u6,
      fault |-> ~({x_start, y_start, psi_start, v_start, cte_start, epsi_start}
                    \subseteq DOMAIN z)]

ConstraintBounds(st) ==
  LET z == [i \in 0 .. n_constraints - 1 |-> 0]
      l1 == SetAt(z, x_start, st[0])
      l2 == SetAt(l1, y_start, st[1])
      l3 == SetAt(l2, psi_start, st[2])
      l4 == SetAt(l3, v_start, st[3])
      l5 == SetAt(l4, cte_start, st[4])
      l6 == SetAt(l5, epsi_start, st[5])
      u1 == SetAt(z, x_start, st[0])
      u2 == SetAt(u1, y_start, st[1])
      u3 == SetAt(u2, psi_start, st[2])
      u4 == SetAt(u3, v_start, st[3])
      u5 == SetAt(u4, cte_start, st[4])
      u6 == SetAt(u5, epsi_start, st[5])
  IN [lo |-> l6, up |-> u6,
      fault |-> ~({x_start, y_start, psi_start, v_start, cte_start, epsi_start}
                    \subseteq DOMAIN z)]

(* lines 183-250 and 275-277: everything the solver is called with         *)
BuildProblem(st, cf) ==
  LET vb == VarBounds
      cb == ConstraintBounds(st)
      iv == InitialVars(st)
  IN [vars |-> iv,
      vars_lowerbound |-> vb.lo, vars_upperbound |-> vb.up,
      constraints_lowerbound |-> cb.lo, constraints_upperbound |-> cb.up,
      coeffs |-> cf,
      boundlog |-> vb.log,
      fault |-> vb.fault \/ cb.fault
                \/ ~({x_start, y_start, psi_start, v_start, cte_start, epsi_start}
                       \subseteq DOMAIN iv)]

(* lines 294-304: the returned vector                                      *)
PathFirst_from_zero == 1 - 1
PathFirst == 1

RECURSIVE PathLoop(_, _, _)
PathLoop(r, x, i) ==
  IF i < SizeSub(N, 1) /\ ~r.fault
  THEN LET ix == x_start + i + PathFirst
           iy == y_start + i + PathFirst
       IN PathLoop([seq |-> Append(Append(r.seq, Rd(x, ix)), Rd(x, iy)),
                    fault |-> ~({ix, iy} \subseteq DOMAIN x)], x, i + 1)
  ELSE r

Extract(x) ==
  PathLoop([seq |-> <<Rd(x, delta_start), Rd(x, a_start)>>,
            fault |-> ~({delta_start, a_start} \subseteq DOMAIN x)], x, 0)

----------------------------------------------------------------------------
(* The environment: the caller's inputs and the solver's vectors           *)

Vector6(a, b, c, d, e, f) == [i \in 0 .. 5 |-> <<a, b, c, d, e, f>>[i + 1]]
Vector4(a, b, c, d) == [i \in 0 .. 3 |-> <<a, b, c, d>>[i + 1]]

States == {Vector6(0, 0, 0, 1000, 0, 0), Vector6(-120, 250, 7, 3000, 40, -15)}
Coeffs == {Vector4(0, 0, 0, 0), Vector4(10, -5, 2, 1)}

Statuses == {"success", "maxiter_exceeded", "local_infeasibility"}

CtrlVals == {-One - 1, PiOver8, One}

(* A vector of the layout's size: state entry k is s * (k + 1), the delta  *)
(* entries start at d and the a entries at a, drifting by s per timestep.  *)
Vec(s, d, a) ==
  [k \in 0 .. 8 * N - 3 |->
     IF k < 6 * N THEN s * (k + 1)
     ELSE IF k < 7 * N - 1 THEN d + s * (k - 6 * N)
     ELSE a - s * (k - (7 * N - 1))]

Vecs == {Vec(s, d, a) : s \in 0 .. MaxSeed, d \in CtrlVals, a \in CtrlVals}

NoSolution == [status |-> "not_defined", x |-> <<>>]
NoProblem == [vars |-> <<>>, vars_lowerbound |-> <<>>, vars_upperbound |-> <<>>,
              constraints_lowerbound |-> <<>>, constraints_upperbound |-> <<>>,
              coeffs |-> <<>>, boundlog |-> <<>>, fault |-> FALSE]

Globals == <<N, ref_cte, ref_epsi, ref_v>>

(* lines 279-304: what the caller receives from a solve_result             *)
ReturnValue(sol) == Extract(sol.x).seq

----------------------------------------------------------------------------
(* Initial state: the globals as initialised, no call made yet             *)

Init ==
  /\ N \in Horizons
  /\ ref_cte = RefCte
  /\ ref_epsi = RefEpsi
  /\ ref_v = RefV
  /\ pc = "idle"
  /\ state = <<>>
  /\ coeffs = <<>>
  /\ problem = NoProblem
  /\ fg = NoEval
  /\ solution = NoSolution
  /\ ok = TRUE
  /\ result = <<>>
  /\ fault = FALSE
  /\ lastStatus = "none"
  /\ calls = 0
  /\ handed = {}

(* MPC::Solve up to the call of CppAD::ipopt::solve, lines 166-277         *)
SolveBegin ==
  /\ pc \in {"idle", "returned"}
  /\ calls < MaxCalls
  /\ calls' = calls + 1
  /\ \E st \in States, cf \in Coeffs :
       LET p == BuildProblem(st, cf)
       IN /\ state' = st
          /\ coeffs' = cf
          /\ problem' = p
          /\ fault' = p.fault
          /\ handed' = handed \cup {[state |-> st, coeffs |-> cf,
                                     globals |-> Globals, problem |-> p]}
  /\ pc' = "solving"
  /\ fg' = NoEval
  /\ solution' = NoSolution
  /\ ok' = TRUE
  /\ result' = <<>>
  /\ UNCHANGED <<N, ref_cte, ref_epsi, ref_v, lastStatus>>

(* the solver evaluates the formulator at a candidate, lines 63-156        *)
SolverEvaluates ==
  /\ pc = "solving"
  /\ \E v \in Vecs :
       LET m == FG_eval(v, Cardinality(DOMAIN problem.constraints_lowerbound))
       IN /\ fg' = m
          /\ fault' = (fault \/ m.fault)
  /\ UNCHANGED <<N, ref_cte, ref_epsi, ref_v, pc, state, coeffs, problem,
                 solution, ok, result, lastStatus, calls, handed>>

(* the solver ends with a status and its last iterate, lines 272-277       *)
SolverReturns ==
  /\ pc = "solving"
  /\ fg.done
  /\ \E st \in Statuses :
       /\ solution' = [status |-> st, x |-> fg.vars]
       /\ lastStatus' = st
  /\ pc' = "solved"
  /\ fg' = NoEval
  /\ UNCHANGED <<N, ref_cte, ref_epsi, ref_v, state, coeffs, problem,
                 ok, result, fault, calls, handed>>

(* MPC::Solve after the solver, lines 279-304                              *)
SolveReturn ==
  /\ pc = "solved"
  /\ ok' = (solution.status = "success")
  /\ result' = ReturnValue(solution)
  /\ fault' = (fault \/ Extract(solution.x).fault)
  /\ pc' = "returned"
  /\ UNCHANGED <<N, ref_cte, ref_epsi, ref_v, state, coeffs, problem, fg,
                 solution, lastStatus, calls, handed>>

Next == SolveBegin \/ SolverEvaluates \/ SolverReturns \/ SolveReturn

Spec == Init /\ [][Next]_vars

----------------------------------------------------------------------------
(* Properties.  They name the layout by its arithmetic (the x block is     *)
(* 0 .. N-1, ..., the delta block 6N .. 7N-2, the a block 7N-1 .. 8N-3),   *)
(* not by the offsets the operations above use.                            *)

Called == pc \in {"solving", "solved", "returned"}

RECURSIVE SumOver(_, _)
SumOver(S, f) ==
  IF S = {} THEN 0
  ELSE LET k == CHOOSE j \in S : TRUE IN f[k] + SumOver(S \ {k}, f)

Count(seq, k) == Cardinality({j \in DOMAIN seq : seq[j] = k})

InBounds(x, lo, up) ==
  /\ DOMAIN x = DOMAIN lo
  /\ DOMAIN x = DOMAIN up
  /\ \A k \in DOMAIN x : Leq(lo[k], Dbl(x[k])) /\ Leq(Dbl(x[k]), up[k])

(* C1: when the solver reports success and its solution lies within the   *)
(* variable bounds Solve handed to it, the returned steering command is in *)
(* [-pi/8, pi/8] and the returned acceleration command is in [-1, 1].      *)
C1_CommandsWithinLimits ==
  (/\ pc = "returned"
   /\ solution.status = "success"
   /\ InBounds(solution.x, problem.vars_lowerbound, problem.vars_upperbound))
  => /\ -PiOver8 <= result[1] /\ result[1] <= PiOver8
     /\ -One <= result[2] /\ result[2] <= One

C1_Witness ==
  /\ pc = "returned"
  /\ solution.status = "success"
  /\ InBounds(solution.x, problem.vars_lowerbound, problem.vars_upperbound)
  /\ result[1] = PiOver8
  /\ result[2] = One

(* C2: after a solve that did not succeed, what Solve returns lets the     *)
(* caller tell it from a successful solve: the value returned differs from *)
(* the one the same solution vector would give under status success.       *)
C2_StatusReachesCaller ==
  (pc = "returned" /\ solution.status # "success")
  => result # ReturnValue([solution EXCEPT !.status = "success"])

(* C3: for every solver status the returned vector has 2 + 2(N-1) entries: *)
(* solution[6N] (delta at t=0), solution[7N-1] (a at t=0), then            *)
(* x_1, y_1, ..., x_{N-1}, y_{N-1}; x_0 and y_0 are not in it.             *)
C3_ReturnedSequence ==
  pc = "returned"
  => /\ Len(result) = 2 + 2 * (N - 1)
     /\ result[1] = solution.x[6 * N]
     /\ result[2] = solution.x[7 * N - 1]
     /\ \A i \in 0 .. N - 2 :
          /\ result[3 + 2 * i] = solution.x[i + 1]
          /\ result[4 + 2 * i] = solution.x[N + i + 1]

C3_Witness ==
  /\ pc = "returned"
  /\ solution.status = "local_infeasibility"
  /\ N = 3
  /\ result = <<solution.x[18], solution.x[20], 2, 5, 3, 6>>

C4_Starts == <<x_start, y_start, psi_start, v_start, cte_start, epsi_start,
               delta_start, a_start>>
C4_Sizes == <<N, N, N, N, N, N, N - 1, N - 1>>

(* C4: the vector has 6N + 2(N-1) entries and the eight offsets cut it     *)
(* into six blocks of N and two blocks of N-1, in the order x, y, psi, v,  *)
(* cte, epsi, delta, a, without gap or overlap; the formulator reads and   *)
(* the driver bounds exactly the indices of that range.                    *)
C4_LayoutPartition ==
  /\ n_vars = 6 * N + 2 * (N - 1)
  /\ C4_Starts[1] = 0
  /\ \A j \in 1 .. 7 : C4_Starts[j + 1] = C4_Starts[j] + C4_Sizes[j]
  /\ C4_Starts[8] + C4_Sizes[8] = n_vars
  /\ Called => /\ DOMAIN problem.vars = 0 .. n_vars - 1
               /\ {problem.boundlog[j] : j \in DOMAIN problem.boundlog} = 0 .. n_vars - 1
  /\ fg.done => fg.reads = 0 .. n_vars - 1

C4_Witness == pc = "solving" /\ fg.done /\ N = 3 /\ a_start = 20

(* C5: no call changes N, ref_cte, ref_epsi or ref_v, and the problem      *)
(* handed to the solver depends on the call's state and coeffs alone, also *)
(* after a call whose solve failed.                                        *)
C5_Memoryless ==
  /\ \A p \in handed : p.globals = Globals
  /\ \A p, q \in handed :
       (p.state = q.state /\ p.coeffs = q.coeffs) => p.problem = q.problem

C5_Witness ==
  /\ pc = "solving"
  /\ calls = 2
  /\ lastStatus = "maxiter_exceeded"
  /\ Cardinality(handed) = 1

(* C6 as stated: every constraint is bounded to [0, 0] except constraints  *)
(* 0 .. 5, which are bounded to [state[k], state[k]].                      *)
C6_FirstSixPinned ==
  Called
  => \A k \in 0 .. 6 * N - 1 :
       /\ problem.constraints_lowerbound[k] = (IF k < 6 THEN state[k] ELSE 0)
       /\ problem.constraints_upperbound[k] = (IF k < 6 THEN state[k] ELSE 0)

(* C6 amended: every constraint is bounded to [0, 0] except the six at the *)
(* block starts 0, N, 2N, 3N, 4N, 5N, where constraint f * N is bounded to *)
(* [state[f], state[f]] (x, y, psi, v, cte, epsi in that order).           *)
C6_BlockStartsPinned ==
  Called
  => /\ DOMAIN problem.constraints_lowerbound = 0 .. 6 * N - 1
     /\ DOMAIN problem.constraints_upperbound = 0 .. 6 * N - 1
     /\ \A k \in 0 .. 6 * N - 1 :
          LET want == IF k % N = 0 THEN state[k \div N] ELSE 0
          IN /\ problem.constraints_lowerbound[k] = want
             /\ problem.constraints_upperbound[k] = want

C6_Witness ==
  /\ pc = "solving"
  /\ N = 3
  /\ state[1] = 250
  /\ problem.constraints_lowerbound[3] = 250
  /\ problem.constraints_lowerbound[1] = 0

(* C7: every variable gets a lower and an upper bound with lower <= upper: *)
(* [-1e19, 1e19] in the six state blocks, [-pi/8, pi/8] in the delta       *)
(* block, [-1, 1] in the a block; each index is assigned by exactly one    *)
(* iteration of one loop and none is left unassigned.                      *)
C7_VariableBounds ==
  Called
  => /\ DOMAIN problem.vars_lowerbound = 0 .. 8 * N - 3
     /\ DOMAIN problem.vars_upperbound = 0 .. 8 * N - 3
     /\ \A k \in 0 .. 8 * N - 3 :
          /\ Count(problem.boundlog, k) = 1
          /\ problem.vars_lowerbound[k] # Uninit
          /\ problem.vars_upperbound[k] # Uninit
          /\ Leq(problem.vars_lowerbound[k], problem.vars_upperbound[k])
          /\ k < 6 * N =>
               /\ problem.vars_lowerbound[k] = NegBig
               /\ problem.vars_upperbound[k] = Big
          /\ (6 * N <= k /\ k < 7 * N - 1) =>
               /\ problem.vars_lowerbound[k] = Dbl(-PiOver8)
               /\ problem.vars_upperbound[k] = Dbl(PiOver8)
          /\ 7 * N - 1 <= k =>
               /\ problem.vars_lowerbound[k] = Dbl(-One)
               /\ problem.vars_upperbound[k] = Dbl(One)
     /\ Len(problem.boundlog) = 8 * N - 2

C7_Witness ==
  /\ pc = "solving"
  /\ N = 3
  /\ problem.vars_upperbound[19] = Dbl(PiOver8)
  /\ problem.vars_upperbound[20] = Dbl(One)

C8_Cost(v) ==
  LET track == [t \in 0 .. N - 1 |->
                  cost_cte_factor * (v[4 * N + t] - ref_cte) * (v[4 * N + t] - ref_cte)
                  + cost_epsi_factor * (v[5 * N + t] - ref_epsi) * (v[5 * N + t] - ref_epsi)
                  + cost_v_factor * (v[3 * N + t] - ref_v) * (v[3 * N + t] - ref_v)]
      effortD == [k \in 6 * N .. 7 * N - 2 |-> cost_current_delta_factor * v[k] * v[k]]
      effortA == [k \in 7 * N - 1 .. 8 * N - 3 |-> cost_current_a_factor * v[k] * v[k]]
      smoothD == [k \in 6 * N .. 7 * N - 3 |->
                    cost_diff_delta_factor * (v[k + 1] - v[k]) * (v[k + 1] - v[k])]
      smoothA == [k \in 7 * N - 1 .. 8 * N - 4 |->
                    cost_diff_a_factor * (v[k + 1] - v[k]) * (v[k + 1] - v[k])]
  IN SumOver(DOMAIN track, track)
     + SumOver(DOMAIN effortD, effortD) + SumOver(DOMAIN effortA, effortA)
     + SumOver(DOMAIN smoothD, smoothD) + SumOver(DOMAIN smoothA, smoothA)

(* C8: the cost in fg[0] is the sum of the weighted squared tracking terms *)
(* over every timestep, the weighted squared effort terms over every delta *)
(* and every a variable, and the weighted squared smoothness terms over    *)
(* every adjacent pair of delta variables and of a variables, once each.   *)
C8_CostIsWeightedSum ==
  fg.done => /\ fg.fg[0].kind = "cost"
             /\ fg.fg[0].val = C8_Cost(fg.vars)

C8_Witness ==
  /\ fg.done
  /\ N = 3
  /\ fg.vars[18] = PiOver8
  /\ fg.vars[19] = PiOver8 + 1
  /\ fg.vars[20] = One
  /\ fg.fg[0].val > 0

(* C9 as stated: with N = 2 the problem has 12 variables, 2 control        *)
(* entries and 12 constraints.                                             *)
C9_TwelveVariables ==
  (N = 2 /\ Called)
  => /\ Cardinality(DOMAIN problem.vars) = 12
     /\ Cardinality(DOMAIN problem.constraints_lowerbound) = 12

C9_ControlEntries ==
  {k \in DOMAIN problem.vars_upperbound : problem.vars_upperbound[k] # Big}

(* C9 amended: with N = 2 the problem has 14 variables (12 state entries   *)
(* and 2 control entries) and 12 constraints, and every index read or      *)
(* written by FG_eval and by Solve lies inside its vector.                 *)
C9_DegenerateHorizon ==
  N = 2
  => /\ ~fault
     /\ SmoothBound = 0
     /\ Called =>
          /\ DOMAIN problem.vars = 0 .. 13
          /\ DOMAIN problem.vars_lowerbound = 0 .. 13
          /\ DOMAIN problem.vars_upperbound = 0 .. 13
          /\ Cardinality(DOMAIN problem.vars \ C9_ControlEntries) = 12
          /\ Cardinality(C9_ControlEntries) = 2
          /\ DOMAIN problem.constraints_lowerbound = 0 .. 11
          /\ DOMAIN problem.constraints_upperbound = 0 .. 11
          /\ ~problem.fault
     /\ fg.done =>
          /\ ~fg.fault
          /\ fg.reads \subseteq 0 .. 13
          /\ DOMAIN fg.fg = 0 .. 12
          /\ \A j \in DOMAIN fg.wr : fg.wr[j] \in 0 .. 12
     /\ pc = "returned" => Len(result) = 4

C9_Witness ==
  /\ N = 2
  /\ pc = "returned"
  /\ calls = 2
  /\ result[1] = One
  /\ result[2] = PiOver8

C10_Forms ==
  <<"x1 - (x0 + v0 * cos(psi0) * dt)",
    "y1 - (y0 + v0 * sin(psi0) * dt)",
    "psi1 - (psi0 - v0 * delta0 / Lf * dt)",
    "v1 - (v0 + a0 * dt)",
    "cte1 - ((f0 - y0) + (v0 * sin(epsi0) * dt))",
    "epsi1 - ((psi0 - psides0) - v0 * delta0 / Lf * dt)">>

C10_Timestep(t) ==
  {f * N + t : f \in 0 .. 5} \cup {6 * N + t, 7 * N - 1 + t}

====
